---- MODULE Spec2Model ----
(***************************************************************************)
(* The streaming pipeline of the color palette generator:                  *)
(*   - the chat client, src/components/chatbot.tsx (Chatbot component:     *)
(*     handleImageSelect, handleSubmit, parseColorInfo,                    *)
(*     stripMainColorsSection, the remove button);                         *)
(*   - the endpoint, src/app/api/chat/route.ts (POST, the version at       *)
(*     lines 128-269 that handles the modes full / followup / text-only);  *)
(*   - the environment: the user, the FileReader, the network between      *)
(*     endpoint and browser, and the hosted generative model.              *)
(*                                                                         *)
(* Four specifications: Spec is the Chatbot with this endpoint, where a    *)
(* submit reads a later millisecond than the submit before it; ClockSpec   *)
(* is the same with any reading of the clock, the same millisecond         *)
(* included;                                                               *)
(* EndpointSpec is the endpoint with any client, which also sends the      *)
(* requests the Chatbot never sends; ClientSpec is the Chatbot with any    *)
(* server, whose event stream can also carry error events.                 *)
(*                                                                         *)
(* Text is a sequence of characters, each a one-character string.  A few   *)
(* fixed blocks of prose that no code ever inspects (the prompt templates, *)
(* the fixed message texts) are single elements of such a sequence.        *)
(***************************************************************************)
EXTENDS Integers, Sequences, FiniteSets, TLC

\* ------------------------------------------------------------------------
\* Bounds of the exploration
\* ------------------------------------------------------------------------
\* number of submits (handleSubmit runs that pass the first guard); with
\* any client, the number of calls of the hosted model
MaxSubmits == 2
\* a network chunk boundary that falls inside an event line lies this many
\* bytes into the undelivered bytes: inside the prefix "data: " of the line,
\* or inside its JSON payload
CutPoints == {3, 8}
\* number of image files the user picks over the whole run
MaxPicks == 1
\* number of adverse events of the environment over the whole run: a fetch
\* that rejects, a response without body, a model call that throws, a
\* network chunk boundary inside an event line
MaxFaults == 1
\* the clock of the browser advances in steps of this many milliseconds
\* while a response is read
TickMs == 6000

\* ------------------------------------------------------------------------
\* Characters and strings
\* ------------------------------------------------------------------------
None == "none"

\* JavaScript \s and String.prototype.trim, on the characters that occur
IsWS(c) == c \in {" ", "\n"}

\* a digit class that lets a letter through
IsDigitLoose(c) == c \in {"0", "1", "2", "3", "4", "5", "6", "7", "8", "9", "x"}

\* JavaScript \d
IsDigit(c) == c \in {"0", "1", "2", "3", "4", "5", "6", "7", "8", "9"}

\* a character class that lets one more letter through
IsHexDigitLoose(c) == c \in {"0", "1", "2", "3", "4", "5", "6", "7", "8", "9",
                             "a", "b", "c", "d", "e", "f", "g",
                             "A", "B", "C", "D", "E", "F", "G"}

\* the character class [0-9A-Fa-f] of colorRegex
IsHexDigit(c) == c \in {"0", "1", "2", "3", "4", "5", "6", "7", "8", "9",
                        "a", "b", "c", "d", "e", "f",
                        "A", "B", "C", "D", "E", "F"}

\* does lit occur in t at position i (1-based)
Lit(t, i, lit) == /\ i >= 1
                  /\ i + Len(lit) - 1 <= Len(t)
                  /\ \A k \in 1..Len(lit) : t[i + k - 1] = lit[k]

\* the least of a set of positions, 0 if there is none
First(S) == IF S = {} THEN 0 ELSE CHOOSE i \in S : \A j \in S : i <= j

\* String.prototype.startsWith
startsWith(t, lit) == Lit(t, 1, lit)

\* String.prototype.indexOf, 1-based; 0 stands for JavaScript's -1
indexOf(t, lit) == First({i \in 1..(Len(t) - Len(lit) + 1) : Lit(t, i, lit)})

\* first position at or after i that holds no white space (\s*)
RECURSIVE SkipWS(_, _)
SkipWS(t, i) == IF i <= Len(t) /\ IsWS(t[i]) THEN SkipWS(t, i + 1) ELSE i

\* first position at or after i that holds no digit (\d*)
RECURSIVE SkipDigits(_, _)
SkipDigits(t, i) == IF i <= Len(t) /\ IsDigit(t[i]) THEN SkipDigits(t, i + 1) ELSE i

\* first position at or after i that holds a comma, Len(t)+1 if none ([^,]*)
RECURSIVE SkipToComma(_, _)
SkipToComma(t, i) == IF i <= Len(t) /\ t[i] # "," THEN SkipToComma(t, i + 1) ELSE i

\* last position at or before i that holds no white space, 0 if none
RECURSIVE LastNonWS(_, _)
LastNonWS(t, i) == IF i >= 1 /\ IsWS(t[i]) THEN LastNonWS(t, i - 1) ELSE i

\* String.prototype.trim
trim(t) == SubSeq(t, SkipWS(t, 1), LastNonWS(t, Len(t)))

\* the pieces of t between the positions P: the k-th piece runs from after
\* the (k-1)-th position to before the k-th
pieces(t, P) ==
  LET nth(k) == IF k = 0 THEN 0
                ELSE IF k > Cardinality(P) THEN Len(t) + 1
                ELSE CHOOSE i \in P : Cardinality({j \in P : j <= i}) = k
  IN [k \in 1..(Cardinality(P) + 1) |-> SubSeq(t, nth(k - 1) + 1, nth(k) - 1)]

\* String.prototype.split("\n")
split(t) == pieces(t, {i \in 1..Len(t) : t[i] = "\n"})

DataPrefix == <<"d", "a", "t", "a", ":", " ">>

\* lines.filter((line) => line.startsWith("data: "))
filterData(lines) == SelectSeq(lines, LAMBDA line : startsWith(line, DataPrefix))

\* ------------------------------------------------------------------------
\* JSON
\* ------------------------------------------------------------------------
\* JSON.stringify of one character inside a string
EscapeChar(c) ==
  IF c = "\"" THEN <<"\\", "\"">>
  ELSE IF c = "\\" THEN <<"\\", "\\">>
  ELSE IF c = "\n" THEN <<"\\", "n">>
  ELSE <<c>>

\* JSON.stringify of a string, without its quotes
RECURSIVE EscapeBody(_)
EscapeBody(t) ==
  IF t = <<>> THEN <<>>
  ELSE IF Len(t) = 1 THEN EscapeChar(t[1])
  ELSE EscapeBody(SubSeq(t, 1, Len(t) \div 2))
       \o EscapeBody(SubSeq(t, Len(t) \div 2 + 1, Len(t)))

JSONString(t) == <<"\"">> \o EscapeBody(t) \o <<"\"">>

JSONFail == [ok |-> FALSE, val |-> <<>>, end |-> 0]

\* the number of backslashes that immediately precede position j of a JSON
\* string that starts at position i
BackslashRun(t, i, j) ==
  CHOOSE k \in 0..(j - i) : /\ \A m \in 1..k : t[j - m] = "\\"
                            /\ k = j - i \/ t[j - k - 1] # "\\"

\* the character at position j is the second character of an escape
Escaped(t, i, j) == j > i /\ t[j - 1] = "\\" /\ BackslashRun(t, i, j) % 2 = 1

\* the character at position j opens an escape
OpensEscape(t, i, j) == t[j] = "\\" /\ ~Escaped(t, i, j)

\* the characters that positions lo..hi of a JSON string stand for
RECURSIVE Unescape(_, _, _, _)
Unescape(t, i, lo, hi) ==
  IF lo > hi THEN <<>>
  ELSE IF lo = hi
       THEN IF OpensEscape(t, i, lo) THEN <<>>
            ELSE IF Escaped(t, i, lo) /\ t[lo] = "n" THEN <<"\n">>
            ELSE <<t[lo]>>
  ELSE Unescape(t, i, lo, (lo + hi) \div 2) \o Unescape(t, i, (lo + hi) \div 2 + 1, hi)

\* the JSON string that runs from position i to the closing quote at q
\* (0: there is none)
StringUpTo(t, i, q) ==
  IF q = 0 THEN JSONFail
  ELSE IF \E j \in i..(q - 1) : \/ t[j] = "\n"
                                \/ Escaped(t, i, j) /\ t[j] \notin {"\"", "\\", "n"}
       THEN JSONFail
  ELSE [ok |-> TRUE, val |-> Unescape(t, i, i, q - 1), end |-> q + 1]

\* JSON.parse of a string whose opening quote precedes position i:
\* val is the string, end the position after its closing quote
ReadJSONString(t, i) ==
  StringUpTo(t, i, First({j \in i..Len(t) : t[j] = "\"" /\ ~Escaped(t, i, j)}))

\* JSON.parse of a member  "key":"string"  at position i
ReadMember(t, i, key) ==
  IF Lit(t, i, JSONString(key) \o <<":", "\"">>)
  THEN ReadJSONString(t, i + Len(JSONString(key)) + 2)
  ELSE JSONFail

\* JSON.parse of the members of an object from position i on, strings under
\* the given keys in this order; m is the member read at position i
RECURSIVE ReadMembers(_, _, _, _)
NextMember(t, keys, vals, m) ==
  IF ~m.ok THEN JSONFail
  ELSE IF Len(keys) = 1
       THEN IF Lit(t, m.end, <<"}">>)
            THEN [ok |-> TRUE, val |-> Append(vals, m.val), end |-> m.end + 1]
            ELSE JSONFail
  ELSE IF Lit(t, m.end, <<",">>)
       THEN ReadMembers(t, m.end + 1, Tail(keys), Append(vals, m.val))
  ELSE JSONFail

ReadMembers(t, i, keys, vals) == NextMember(t, keys, vals, ReadMember(t, i, Head(keys)))

\* JSON.parse of an object at position i: val is the sequence of its
\* strings, end the position after its closing brace.  The objects that
\* reach a JSON.parse of the program are those the program wrote, and the
\* pieces a chunk boundary cuts them into
ReadObject(t, i, keys) ==
  IF Lit(t, i, <<"{">>) THEN ReadMembers(t, i + 1, keys, <<>>) ELSE JSONFail

KeyText == <<"t", "e", "x", "t">>
KeyName == <<"n", "a", "m", "e">>
KeyHex == <<"h", "e", "x">>
KeyRgb == <<"r", "g", "b">>
KeyError == <<"e", "r", "r", "o", "r">>

\* JSON.stringify({ text })
StringifyText(text) == <<"{">> \o JSONString(KeyText) \o <<":">> \o JSONString(text) \o <<"}">>

\* data of  const data = JSON.parse(line.slice(6)) , o and e the objects
\* read from the payload t as { text } and as { error }: ok is FALSE where
\* JSON.parse throws; a member that is missing is undefined, shown as the
\* empty string (both are falsy)
EventOf(t, o, e) ==
  IF o.ok /\ o.end = Len(t) + 1
  THEN [ok |-> TRUE, text |-> o.val[1], error |-> <<>>]
  ELSE IF e.ok /\ e.end = Len(t) + 1
  THEN [ok |-> TRUE, text |-> <<>>, error |-> e.val[1]]
  ELSE [ok |-> FALSE, text |-> <<>>, error |-> <<>>]

ParseEvent(t) ==
  EventOf(t, ReadObject(t, 1, <<KeyText>>), ReadObject(t, 1, <<KeyError>>))

\* JSON.stringify of one ColorInfo; the keys in the order parseColorInfo
\* writes them: name, hex, rgb
StringifyColor(c) ==
  <<"{">> \o JSONString(KeyName) \o <<":">> \o JSONString(c.name) \o <<",">>
          \o JSONString(KeyHex) \o <<":">> \o JSONString(c.hex) \o <<",">>
          \o JSONString(KeyRgb) \o <<":">> \o JSONString(c.rgb) \o <<"}">>

RECURSIVE StringifyColors(_)
StringifyColors(cs) ==
  IF cs = <<>> THEN <<>>
  ELSE StringifyColor(Head(cs))
       \o (IF Len(cs) > 1 THEN <<",">> ELSE <<>>) \o StringifyColors(Tail(cs))

\* JSON.stringify(colorPalette)
StringifyPalette(cs) == <<"[">> \o StringifyColors(cs) \o <<"]">>

\* the elements of a JSON array of ColorInfo from position i on; c is the
\* object read at position i
RECURSIVE ParseColors(_, _, _)
NextColor(t, acc, c) ==
  IF ~c.ok THEN JSONFail
  ELSE IF Lit(t, c.end, <<",">>)
       THEN ParseColors(t, c.end + 1,
                        Append(acc, [name |-> c.val[1], hex |-> c.val[2], rgb |-> c.val[3]]))
  ELSE IF Lit(t, c.end, <<"]">>) /\ c.end = Len(t)
       THEN [ok |-> TRUE,
             val |-> Append(acc, [name |-> c.val[1], hex |-> c.val[2], rgb |-> c.val[3]]),
             end |-> c.end + 1]
  ELSE JSONFail

ParseColors(t, i, acc) == NextColor(t, acc, ReadObject(t, i, <<KeyName, KeyHex, KeyRgb>>))

\* JSON.parse(currentPalette)
ParsePalette(t) ==
  IF t = <<"[", "]">> THEN [ok |-> TRUE, val |-> <<>>, end |-> 3]
  ELSE IF Lit(t, 1, <<"[">>) THEN ParseColors(t, 2, <<>>)
  ELSE JSONFail

\* ------------------------------------------------------------------------
\* chatbot.tsx: the pure functions
\* ------------------------------------------------------------------------
MainColors == <<"M", "a", "i", "n", " ", "C", "o", "l", "o", "r", "s", ":">>

\* function stripMainColorsSection(text)
stripMainColorsSection(text) ==
  LET mainColorsIndex == indexOf(text, MainColors)
  IN IF mainColorsIndex # 0
     THEN trim(SubSeq(text, 1, mainColorsIndex - 1))
     ELSE trim(text)

\* colorRegex, piece by piece:
\*   (\d+)\.\s*Name:\s*([^,]+),\s*Hex:\s*(#[0-9A-Fa-f]{6}),
\*   \s*RGB:\s*\((\d+),\s*(\d+),\s*(\d+)\)
\* The pieces "d+", "s*name" and "hex" are the capturing groups.
Piece(kind, lit) == [kind |-> kind, lit |-> lit]
colorRegex ==
  <<Piece("d+", <<>>), Piece("lit", <<".">>),
    Piece("s*", <<>>), Piece("lit", <<"N", "a", "m", "e", ":">>),
    Piece("s*name", <<>>), Piece("lit", <<",">>),
    Piece("s*", <<>>), Piece("lit", <<"H", "e", "x", ":">>),
    Piece("s*", <<>>), Piece("hex", <<>>), Piece("lit", <<",">>),
    Piece("s*", <<>>), Piece("lit", <<"R", "G", "B", ":">>),
    Piece("s*", <<>>), Piece("lit", <<"(">>),
    Piece("d+", <<>>), Piece("lit", <<",">>),
    Piece("s*", <<>>), Piece("d+", <<>>), Piece("lit", <<",">>),
    Piece("s*", <<>>), Piece("d+", <<>>), Piece("lit", <<")">>)>>

\* a span of text: from its first position to before position to; a piece
\* that does not match has to = 0
Span(from, to) == [from |-> from, to |-> to]

\* \s*([^,]+) at position pos, d the end of the white space and e the
\* position of the next comma.  \s* takes all the white space; where the
\* comma follows it at once, it gives one character back to the group
NameSpan(pos, d, e) ==
  IF e > d THEN Span(d, e)
  ELSE IF d > pos THEN Span(d - 1, e)
  ELSE Span(pos, 0)

\* the text one piece of colorRegex matches at position pos
PieceSpan(text, pos, piece) ==
  IF piece.kind = "lit"
  THEN Span(pos, IF Lit(text, pos, piece.lit) THEN pos + Len(piece.lit) ELSE 0)
  ELSE IF piece.kind = "s*"
  THEN Span(pos, SkipWS(text, pos))
  ELSE IF piece.kind = "d+"
  THEN Span(pos, IF pos <= Len(text) /\ IsDigit(text[pos]) THEN SkipDigits(text, pos) ELSE 0)
  ELSE IF piece.kind = "hex"
  THEN Span(pos, IF /\ Lit(text, pos, <<"#">>)
                    /\ pos + 6 <= Len(text)
                    /\ \A n \in 1..6 : IsHexDigit(text[pos + n])
                 THEN pos + 7 ELSE 0)
  ELSE NameSpan(pos, SkipWS(text, pos), SkipToComma(text, SkipWS(text, pos)))

NoMatch == [ok |-> FALSE, end |-> 0, groups |-> <<>>]

\* the pieces of colorRegex from the k-th on, at position pos; groups are
\* the texts the capturing groups have matched so far, span is the text the
\* k-th piece matches
RECURSIVE matchFrom(_, _, _, _)
matchNext(text, k, groups, span) ==
  IF span.to = 0 THEN NoMatch
  ELSE matchFrom(text, span.to, k + 1,
                 IF colorRegex[k].kind \in {"d+", "s*name", "hex"}
                 THEN Append(groups, SubSeq(text, span.from, span.to - 1))
                 ELSE groups)

matchFrom(text, pos, k, groups) ==
  IF k > Len(colorRegex) THEN [ok |-> TRUE, end |-> pos, groups |-> groups]
  ELSE matchNext(text, k, groups, PieceSpan(text, pos, colorRegex[k]))

\* one attempt of colorRegex at position i of text (0: no position)
colorRegexAt(text, i) == IF i = 0 THEN NoMatch ELSE matchFrom(text, i, 1, <<>>)

\* colorRegex.exec(text): the leftmost match at or after lastIndex; the g
\* flag sets lastIndex to the end of that match
exec(text, lastIndex) ==
  colorRegexAt(text, First({i \in lastIndex..Len(text) : colorRegexAt(text, i).ok}))

\* { name: match[2].trim(), hex: match[3],
\*   rgb: `(${match[4]}, ${match[5]}, ${match[6]})` }
ColorInfo(match) ==
  [name |-> trim(match.groups[2]),
   hex |-> match.groups[3],
   rgb |-> <<"(">> \o match.groups[4] \o <<",", " ">> \o match.groups[5]
                   \o <<",", " ">> \o match.groups[6] \o <<")">>]

\* while ((match = colorRegex.exec(text)) !== null) colors.push(...)
RECURSIVE whileExec(_, _, _)
whileExec(text, match, colors) ==
  IF ~match.ok THEN colors
  ELSE whileExec(text, exec(text, match.end), Append(colors, ColorInfo(match)))

\* a loop that stops after the first match
parseFirstColor(text) ==
  IF exec(text, 1).ok THEN <<ColorInfo(exec(text, 1))>> ELSE <<>>

\* parseColorInfo(text).colors
parseColorInfo(text) == whileExec(text, exec(text, 1), <<>>)

\* ------------------------------------------------------------------------
\* The inputs of the exploration
\* ------------------------------------------------------------------------
\* files the user can pick; the name stands for the whole File object
ImageFiles == {"a.png"}
Files == ImageFiles \cup {"n.txt"}

\* file.type.startsWith("image/")
IsImage(f) == f \in ImageFiles

\* reader.result of readAsDataURL(file); the empty string stands for null
Preview(f) == <<"data:", f>>
NoPreview == <<>>

\* lastUploadedImage === null
NoUpload == [file |-> None, preview |-> NoPreview]

\* a form field that is missing: formData.get returns null, which a template
\* literal prints as the four letters null
Null == <<"null">>

\* what the user can type
Inputs == {<<>>, <<" ", "q", " ">>}

\* the texts of the chunks the hosted model can yield
T0 == <<>>
T1 == <<" ", "\"", "S", "\\", " ", "\n",
        "M", "a", "i", "n", " ", "C", "o", "l", "o", "r", "s", ":", "\n",
        "1", ".", " ", "N", "a", "m", "e", ":", " ", "R", "e", "d", " ", ",",
        " ", "H", "e">>
T2 == <<"x", ":", " ", "#", "F", "F", "0", "0", "0", "0", ",", " ",
        "R", "G", "B", ":", " ", "(", "2", "5", "5", ",", " ", " ", "0", ",", "0", ")", "\n",
        "2", ".", "N", "a", "m", "e", ":", "b", ",", "H", "e", "x", ":",
        "#", "0", "0", "f", "f", "0", "G", ",",
        "R", "G", "B", ":", "(", "0", ",", "0", ",", "0", ")", "\n",
        "3", ".", "N", "a", "m", "e", ":", "c", ",", "H", "e", "x", ":",
        "#", "0", "a", "0", "B", "0", "c", ",",
        "R", "G", "B", ":", "(", "9", "9", "9", ",", "0", ",", "0", ")", "\n",
        "4", ".", "N", "a", "m", "e", ":", "d", ",", "H", "e", "x", ":",
        "#", "0", "0", "0", "0", "0", "0", ",",
        "R", "G", "B", ":", "(", "1", ",", "2", ",", "x", ")">>
\* the replies the hosted model can stream, chunk by chunk: nothing; or an
\* empty chunk, then a description, the header and a first palette entry
\* that ends in the next chunk, then an entry with a malformed hex code, an
\* entry with an RGB value out of range and an entry with a malformed RGB
\* value
Replies == {<<>>, <<T0, T1, T2>>}

\* ------------------------------------------------------------------------
\* The HTTP exchange
\* ------------------------------------------------------------------------
ModeFull == <<"f", "u", "l", "l">>
ModeFollowup == <<"f", "o", "l", "l", "o", "w", "u", "p">>
ModeTextOnly == <<"t", "e", "x", "t", "-", "o", "n", "l", "y">>
KeyQuestion == <<"q", "u", "e", "s", "t", "i", "o", "n">>
KeyMode == <<"m", "o", "d", "e">>

NoRequest == [contentType |-> "none", image |-> None, mode |-> Null,
              question |-> Null, currentPalette |-> Null, body |-> <<>>]
NoResponse == [status |-> 0, contentType |-> "none", error |-> <<>>]

\* new Response(JSON.stringify({ error }), { status, headers })
JsonResponse(status, error) ==
  [status |-> status, contentType |-> "application/json", error |-> error]

\* new Response(stream.readable, { headers })
StreamResponse == [status |-> 200, contentType |-> "text/event-stream", error |-> <<>>]

\* const CHUNK_TIMEOUT = 10000
CHUNK_TIMEOUT == 10000

\* ------------------------------------------------------------------------
\* State
\* ------------------------------------------------------------------------
VARIABLES
  \* environment of the endpoint: process.env.GOOGLE_API_KEY is set
  apiKey,
  \* React state of Chatbot (chatbot.tsx lines 67-78)
  messages, isLoading, colorPalette, isAnalyzing, input,
  selectedImage, imagePreview, lastUploadedImage,
  \* files whose FileReader has not fired onload yet
  readers,
  \* Date.now() of the latest submit
  now,
  \* the running handleSubmit: its position and its locals
  pc, messageId, submitImage, imageToUse, accumulatedText,
  \* Date.now() - lastChunkTime of the running handleSubmit, and the error
  \* its catch clause has caught
  sinceLastChunk, error,
  \* the HTTP exchange: the request under way and the response head
  request, response,
  \* the endpoint: state of the response stream, the chunks the model has
  \* yielded for it, the bytes written to it, how many of them the client
  \* has read, and every call of the model so far
  stream, yielded, sseOut, delivered, modelCalls,
  \* req.bodyUsed of the latest request: the endpoint has read its body
  bodyUsed,
  \* the hosted model: the chunks it has still to yield for the current call
  pending,
  \* files picked and adverse events of the environment so far, over the
  \* whole run
  nPicks, nFaults

uiVars == <<input, selectedImage, imagePreview, lastUploadedImage, readers>>
chatVars == <<messages, isLoading, colorPalette, isAnalyzing>>
frameVars == <<pc, messageId, submitImage, imageToUse, accumulatedText,
               sinceLastChunk, error>>
httpVars == <<request, response>>
serverVars == <<stream, yielded, sseOut, modelCalls, pending, bodyUsed>>
vars == <<apiKey, messages, isLoading, colorPalette, isAnalyzing, input,
          selectedImage, imagePreview, lastUploadedImage, readers, now,
          pc, messageId, submitImage, imageToUse, accumulatedText,
          sinceLastChunk, error,
          request, response, stream, yielded, sseOut, delivered, modelCalls,
          bodyUsed, pending, nPicks, nFaults>>

Init ==
  /\ apiKey \in BOOLEAN
  /\ messages = <<>>
  /\ isLoading = FALSE
  /\ colorPalette = <<>>
  /\ isAnalyzing = FALSE
  /\ input = <<>>
  /\ selectedImage = None
  /\ imagePreview = NoPreview
  /\ lastUploadedImage = NoUpload
  /\ readers = {}
  /\ now = 0
  /\ pc = "idle"
  /\ messageId = 0
  /\ submitImage = None
  /\ imageToUse = None
  /\ accumulatedText = <<>>
  /\ sinceLastChunk = 0
  /\ error = None
  /\ request = NoRequest
  /\ response = NoResponse
  /\ stream = "none"
  /\ yielded = <<>>
  /\ sseOut = <<>>
  /\ delivered = 0
  /\ modelCalls = <<>>
  /\ bodyUsed = FALSE
  /\ pending = <<>>
  /\ nPicks = 0
  /\ nFaults = 0

\* ------------------------------------------------------------------------
\* chatbot.tsx: the user interface
\* ------------------------------------------------------------------------
\* the file input, the textarea and the send button carry
\* disabled={isLoading || isAnalyzing}
Disabled == isLoading \/ isAnalyzing

\* Date.now() where the latest submit read last, 0 before any submit: the
\* clock counts whole milliseconds, so a later call returns the number an
\* earlier call returned, or a larger one
DateNow(last) == IF last = 0 THEN {1} ELSE {last, last + 1}

\* the number of submits so far: every submit appends one user message,
\* and no user message is ever removed
nSubmits == Cardinality({i \in DOMAIN messages : messages[i].role = "user"})

\* the user types into the textarea (onValueChange={setInput})
setInput(v) ==
  /\ ~Disabled
  /\ nSubmits < MaxSubmits
  /\ v # input
  /\ input' = v
  /\ UNCHANGED <<apiKey, chatVars, selectedImage, imagePreview, lastUploadedImage,
                 readers, now, frameVars, httpVars, serverVars, delivered, nPicks, nFaults>>

\* the user picks a file
handleImageSelect(file) ==
  /\ ~Disabled
  /\ IF ~IsImage(file)
     THEN UNCHANGED <<selectedImage, readers, nPicks>>
     ELSE /\ nPicks < MaxPicks
          /\ selectedImage' = file
          /\ readers' = readers \cup {file}
          /\ nPicks' = nPicks + 1
  /\ UNCHANGED <<apiKey, chatVars, input, imagePreview, lastUploadedImage,
                 now, frameVars, httpVars, serverVars, delivered, nFaults>>

\* reader.onload of the FileReader started for file
readerOnload(file) ==
  /\ file \in readers
  /\ readers' = readers \ {file}
  /\ imagePreview' = Preview(file)
  /\ UNCHANGED <<apiKey, chatVars, input, selectedImage, lastUploadedImage,
                 now, frameVars, httpVars, serverVars, delivered, nPicks, nFaults>>

\* the remove button, rendered while a preview is shown
removeImage ==
  /\ imagePreview # NoPreview \/ lastUploadedImage.preview # NoPreview
  /\ selectedImage' = None
  /\ imagePreview' = NoPreview
  /\ lastUploadedImage' = NoUpload
  /\ UNCHANGED <<apiKey, chatVars, input, readers,
                 now, frameVars, httpVars, serverVars, delivered, nPicks, nFaults>>

\* ------------------------------------------------------------------------
\* chatbot.tsx: handleSubmit up to the fetch
\* ------------------------------------------------------------------------
Msg(id, role, content, preview) ==
  [id |-> id, role |-> role, content |-> content, imagePreview |-> preview]

\* userMessage; the element after "Selected image: " stands for the text
\* `${name} (${(size / 1024).toFixed(1)} KB)` of the file
userMessage(id, inp, selected, preview) ==
  Msg(<<id, "">>, "user",
      IF selected # None
      THEN (IF trim(inp) # <<>> THEN trim(inp) \o <<"\n", "\n">> ELSE <<>>)
           \o <<"Selected image: ", selected>>
      ELSE trim(inp),
      preview)

loadingMessage(id, selected) ==
  Msg(<<id, "-loading">>, "assistant",
      IF selected # None THEN <<"Analyzing your image">> ELSE <<"Processing your message">>,
      NoPreview)

\* the FormData of an image request
formDataAlwaysFull(image, selected, inp, palette) ==
  [contentType |-> "multipart/form-data",
   image |-> image,
   mode |-> ModeFull,
   question |-> IF trim(inp) # <<>> THEN trim(inp) ELSE Null,
   currentPalette |-> StringifyPalette(palette),
   body |-> <<>>]

formData(image, selected, inp, palette) ==
  [contentType |-> "multipart/form-data",
   image |-> image,
   mode |-> IF selected # None THEN ModeFull ELSE ModeFollowup,
   question |-> IF trim(inp) # <<>> THEN trim(inp) ELSE Null,
   currentPalette |-> IF selected = None /\ Len(palette) > 0
                      THEN StringifyPalette(palette) ELSE Null,
   body |-> <<>>]

\* the JSON request of a text-only message
jsonBody(inp) ==
  [contentType |-> "application/json",
   image |-> None, mode |-> Null, question |-> Null, currentPalette |-> Null,
   body |-> <<"{">> \o JSONString(KeyQuestion) \o <<":">> \o JSONString(trim(inp))
            \o <<",">> \o JSONString(KeyMode) \o <<":">> \o JSONString(ModeTextOnly)
            \o <<"}">>]

\* handleSubmit from its first line to the await of fetch; t is what
\* Date.now() returns
handleSubmit(t) ==
  /\ pc \in {"idle", "done"}
  /\ ~Disabled
  /\ nSubmits < MaxSubmits
  /\ ~(trim(input) = <<>> /\ selectedImage = None)
  /\ LET id == t
         image == IF selectedImage # None THEN selectedImage ELSE lastUploadedImage.file
     IN /\ now' = id
        /\ messageId' = id
        /\ messages' = messages \o <<userMessage(id, input, selectedImage, imagePreview),
                                     loadingMessage(id, selectedImage)>>
        /\ lastUploadedImage' = IF selectedImage # None /\ imagePreview # NoPreview
                                THEN [file |-> selectedImage, preview |-> imagePreview]
                                ELSE lastUploadedImage
        /\ input' = <<>>
        /\ selectedImage' = None
        /\ imagePreview' = NoPreview
        /\ isLoading' = TRUE
        /\ submitImage' = selectedImage
        /\ imageToUse' = image
        /\ accumulatedText' = <<>>
        /\ sinceLastChunk' = 0
        /\ error' = None
        /\ request' = IF image # None
                      THEN formData(image, selectedImage, input, colorPalette)
                      ELSE jsonBody(input)
        /\ pc' = "fetch"
  /\ UNCHANGED <<apiKey, colorPalette, isAnalyzing, readers, response,
                 serverVars, delivered, nPicks, nFaults>>

\* ------------------------------------------------------------------------
\* route.ts: POST
\* ------------------------------------------------------------------------
\* await req.json() of the body of a text-only request
\* o is the object read from the body t
BodyOf(t, o) ==
  IF o.ok /\ o.end = Len(t) + 1
  THEN [ok |-> TRUE, bodyUsed |-> TRUE, imageFile |-> None, mode |-> o.val[2],
        question |-> o.val[1], currentPalette |-> <<>>]
  ELSE [ok |-> FALSE, bodyUsed |-> TRUE, imageFile |-> None, mode |-> <<>>,
        question |-> <<>>, currentPalette |-> <<>>]

ParseBody(t) == BodyOf(t, ReadObject(t, 1, <<KeyQuestion, KeyMode>>))

\* the locals imageFile, mode, question, currentPalette after the content
\* type has been looked at; ok is FALSE where reading the body throws,
\* bodyUsed tells whether the body has been read
Fields(req) ==
  IF req.contentType = "multipart/form-data"
  THEN [ok |-> TRUE, bodyUsed |-> TRUE, imageFile |-> req.image, mode |-> req.mode,
        question |-> req.question, currentPalette |-> req.currentPalette]
  ELSE IF req.contentType = "application/json"
  THEN ParseBody(req.body)
  ELSE [ok |-> TRUE, bodyUsed |-> FALSE, imageFile |-> None, mode |-> ModeFull,
        question |-> <<>>, currentPalette |-> <<>>]

\* the decimal digits of a number (template literal of index + 1)
RECURSIVE Decimal(_)
Decimal(n) ==
  LET d == <<"0", "1", "2", "3", "4", "5", "6", "7", "8", "9">>
  IN IF n < 10 THEN <<d[n + 1]>> ELSE Decimal(n \div 10) \o <<d[(n % 10) + 1]>>

\* `${index + 1}. Name: ${color.name}, Hex: ${color.hex}, RGB: ${color.rgb}`
PaletteLine(index, color) ==
  Decimal(index + 1) \o <<".", " ", "N", "a", "m", "e", ":", " ">> \o color.name
    \o <<",", " ", "H", "e", "x", ":", " ">> \o color.hex
    \o <<",", " ", "R", "G", "B", ":", " ">> \o color.rgb

\* .map(...).join('\n') from element index (0-based) on
RECURSIVE PaletteLines(_, _)
PaletteLines(colors, index) ==
  IF index >= Len(colors) THEN <<>>
  ELSE PaletteLine(index, colors[index + 1])
       \o (IF index + 1 < Len(colors) THEN <<"\n">> ELSE <<>>)
       \o PaletteLines(colors, index + 1)

\* a string is truthy unless it is null or empty
Truthy(t) == t # Null /\ t # <<>>

\* the template of paletteContext around the parsed palette
ContextOf(parsed) ==
  [ok |-> parsed.ok,
   text |-> <<"\n", "Current color palette from previous analysis:", "\n">>
            \o PaletteLines(parsed.val, 0) \o <<"\n">>]

\* paletteContext; ok is FALSE where JSON.parse(currentPalette) throws
paletteContext(currentPalette) ==
  IF ~Truthy(currentPalette) THEN [ok |-> TRUE, text |-> <<>>]
  ELSE ContextOf(ParsePalette(currentPalette))

\* the template of the follow-up prompt around question and paletteContext
FollowupPrompt(question, ctx) ==
  [ok |-> ctx.ok,
   text |-> <<"You are analyzing an image [...] User's question: ">> \o question
            \o <<"\n", "\n">> \o ctx.text \o <<"\n", "\n">>
            \o <<"Please provide a detailed and helpful response [...]">>]

\* basePrompt; each fixed block of prose is one element
basePrompt(f) ==
  IF f.mode = ModeTextOnly
  THEN [ok |-> TRUE, text |-> <<"You are a helpful AI assistant. [...] question: ">> \o f.question]
  ELSE IF f.mode = ModeFull
  THEN [ok |-> TRUE, text |-> <<"First, provide a detailed description [...] Main Colors: [...]">>]
  ELSE IF f.mode = ModeFollowup
  THEN FollowupPrompt(f.question, paletteContext(f.currentPalette))
  ELSE [ok |-> TRUE, text |-> <<>>]

\* a prompt that also carries what an earlier request left behind
modelInputWithHistory(f, prompt) ==
  [prompt |-> (IF modelCalls = <<>> THEN <<>>
               ELSE modelCalls[Len(modelCalls)].input.prompt) \o prompt,
   image |-> IF f.mode = ModeTextOnly THEN None ELSE f.imageFile]

\* the argument of model.generateContentStream: the prompt alone for a
\* text-only request, the prompt and the image otherwise
modelInput(f, prompt) ==
  [prompt |-> prompt,
   image |-> IF f.mode = ModeTextOnly THEN None ELSE f.imageFile]

\* the fixed error texts of the endpoint, and error.message of the
\* SyntaxError that req.json() and JSON.parse throw
NotConfigured == <<"Server configuration error: GOOGLE_API_KEY is not configured">>
NoImageFile == <<"No image file provided">>
SyntaxError == <<"SyntaxError">>

\* a response that is not a stream; used tells whether the body of the
\* request has been read by then
Refuse(status, message, used) ==
  [response |-> JsonResponse(status, message),
   input |-> [prompt |-> <<>>, image |-> None],
   bodyUsed |-> used]

\* the end of the outer try: the stream is returned and the model called
\* unless building the prompt p has thrown
Stream(f, p) ==
  IF ~p.ok THEN Refuse(500, SyntaxError, f.bodyUsed)
  ELSE [response |-> StreamResponse, input |-> modelInput(f, p.text),
        bodyUsed |-> f.bodyUsed]

\* a test that asks for the image whatever the mode
RouteImageOnly(f) ==
  IF ~f.ok THEN Refuse(500, SyntaxError, f.bodyUsed)
  ELSE IF f.imageFile = None /\ f.mode = ModeFull
       THEN Refuse(400, NoImageFile, f.bodyUsed)
  ELSE Stream(f, basePrompt(f))

\* the outer try from the fields f of the request on
Route(f) ==
  IF ~f.ok THEN Refuse(500, SyntaxError, f.bodyUsed)
  ELSE IF f.imageFile = None /\ f.mode # ModeTextOnly
       THEN Refuse(400, NoImageFile, f.bodyUsed)
  ELSE Stream(f, basePrompt(f))

\* an endpoint that reads the request before it looks for its key
RespondReadingFirst(req) ==
  IF ~Fields(req).ok THEN Refuse(500, SyntaxError, TRUE)
  ELSE IF ~apiKey THEN Refuse(500, NotConfigured, Fields(req).bodyUsed)
  ELSE Route(Fields(req))

\* the response POST returns for a request, and the call of the model it
\* makes for it
Respond(req) ==
  IF ~apiKey THEN Refuse(500, NotConfigured, FALSE) ELSE Route(Fields(req))

\* the request arrives: POST runs up to its return
POST ==
  /\ request # NoRequest
  /\ response = NoResponse
  /\ stream # "open"
  /\ \E r \in {Respond(request)} :
        /\ response' = r.response
        /\ bodyUsed' = r.bodyUsed
        /\ IF r.response.status = 200
           THEN /\ stream' = "open"
                /\ yielded' = <<>>
                /\ sseOut' = <<>>
                /\ delivered' = 0
                /\ modelCalls' = Append(modelCalls, [req |-> request, input |-> r.input])
                /\ pending' \in Replies
           ELSE UNCHANGED <<stream, yielded, sseOut, delivered, modelCalls, pending>>
  /\ UNCHANGED <<apiKey, chatVars, uiVars, now, frameVars, request, nPicks, nFaults>>

\* `data: ${JSON.stringify({ text })}\n\n`
EventLine(text) == DataPrefix \o StringifyText(text) \o <<"\n", "\n">>

\* a relay that forwards only the chunks that carry text
writeNonEmpty(out, text) == IF text = <<>> THEN out ELSE out \o EventLine(text)

\* await writer.write(encoder.encode(...)) appends the line to the response
write(out, text) == out \o EventLine(text)

\* one turn of  for await (const chunk of result.stream)
modelYield ==
  /\ stream = "open"
  /\ pending # <<>>
  /\ yielded' = Append(yielded, Head(pending))
  /\ sseOut' = write(sseOut, Head(pending))
  /\ pending' = Tail(pending)
  /\ UNCHANGED <<apiKey, chatVars, uiVars, now, frameVars, httpVars, stream,
                 delivered, modelCalls, bodyUsed, nPicks, nFaults>>

\* the model's stream ends: await writer.close()
modelEnd ==
  /\ stream = "open"
  /\ pending = <<>>
  /\ stream' = "closed"
  /\ UNCHANGED <<apiKey, chatVars, uiVars, now, frameVars, httpVars, yielded,
                 sseOut, delivered, modelCalls, bodyUsed, pending, nPicks, nFaults>>

\* the model call or its stream throws: await writer.abort(error)
modelFail ==
  /\ stream = "open"
  /\ nFaults < MaxFaults
  /\ nFaults' = nFaults + 1
  /\ stream' = "aborted"
  /\ UNCHANGED <<apiKey, chatVars, uiVars, now, frameVars, httpVars, yielded,
                 sseOut, delivered, modelCalls, bodyUsed, pending, nPicks>>

\* ------------------------------------------------------------------------
\* chatbot.tsx: handleSubmit after the fetch
\* ------------------------------------------------------------------------
\* prev.filter((msg) => msg.id !== id)
removeMessage(prev, id) == SelectSeq(prev, LAMBDA msg : msg.id # id)

\* prev.map((msg) => msg.id === id ? { ...msg, content } : msg)
replaceContent(prev, id, content) ==
  [i \in DOMAIN prev |-> IF prev[i].id = id THEN [prev[i] EXCEPT !.content = content]
                                            ELSE prev[i]]

\* an updater that appends the reply on every token
upsertAlwaysAppend(prev, id, content) ==
  Append(prev, Msg(id, "assistant", content, NoPreview))

\* the updater of the streamed reply: replace the content of the message
\* with this id if there is one, append the message otherwise
upsert(prev, id, content) ==
  IF \E i \in DOMAIN prev : prev[i].id = id
  THEN replaceContent(prev, id, content)
  ELSE Append(prev, Msg(id, "assistant", content, NoPreview))

\* a palette that is overwritten also when no color was found
setIfAny(palette, colors) == colors

\* if (colors && colors.length > 0) setColorPalette(colors)
setIfFound(palette, colors) == IF Len(colors) > 0 THEN colors ELSE palette

\* the id suffix of the streamed reply of an image request
replySuffix(selected) == IF selected # None THEN "-analysis" ELSE "-response"

\* the body of  for (const line of lines)  of an image request, on the
\* locals and the React state st = [acc, palette, messages]; data is what
\* JSON.parse(line.slice(6)) gives.  What the try of the line throws, the
\* SyntaxError of JSON.parse or the Error made of data.error, its catch
\* logs and drops: the loop continues with the next line
lineOfImageRequest(st, data, id, selected) ==
  IF ~data.ok \/ data.text = <<>> THEN st
  ELSE [acc |-> st.acc \o data.text,
        palette |-> setIfFound(st.palette, parseColorInfo(st.acc \o data.text)),
        messages |-> upsert(st.messages, <<id, replySuffix(selected)>>,
                            stripMainColorsSection(st.acc \o data.text))]

\* the body of  for (const line of lines)  of a text-only request
lineOfTextRequest(st, data, id) ==
  IF ~data.ok \/ data.text = <<>> THEN st
  ELSE [acc |-> st.acc \o data.text,
        palette |-> st.palette,
        messages |-> upsert(st.messages, <<id, "-response">>, trim(st.acc \o data.text))]

\* line.slice(6)
slice6(line) == SubSeq(line, 7, Len(line))

\* for (const line of lines)
RECURSIVE forEachLine(_, _, _, _, _)
forEachLine(st, lines, id, image, selected) ==
  IF lines = <<>> THEN st
  ELSE forEachLine(IF image # None
                   THEN lineOfImageRequest(st, ParseEvent(slice6(Head(lines))), id, selected)
                   ELSE lineOfTextRequest(st, ParseEvent(slice6(Head(lines))), id),
                   Tail(lines), id, image, selected)

\* one chunk: decode, split into lines, keep the data lines, process them
onChunk(st, chunk, id, image, selected) ==
  forEachLine(st, filterData(split(chunk)), id, image, selected)

ErrorContent(message) == <<"Error: ">> \o message

\* the catch of the outer try of an image request (lines 325-344) and the
\* catch and finally of a text-only request (lines 417-435)
failBeforeStream(message) ==
  /\ error' = message
  /\ messages' = replaceContent(messages, <<messageId, "-loading">>, ErrorContent(message))
  /\ IF imageToUse # None
     THEN /\ colorPalette' = IF submitImage # None THEN <<>> ELSE colorPalette
          /\ UNCHANGED isLoading
     ELSE /\ isLoading' = FALSE
          /\ UNCHANGED colorPalette
  /\ pc' = "done"

\* fetch rejects: the request never reached the endpoint
fetchReject ==
  /\ pc = "fetch"
  /\ response = NoResponse
  /\ nFaults < MaxFaults
  /\ nFaults' = nFaults + 1
  /\ request' = NoRequest
  /\ failBeforeStream(<<"Failed to fetch">>)
  /\ UNCHANGED <<apiKey, isAnalyzing, uiVars, now, messageId, submitImage,
                 imageToUse, accumulatedText, sinceLastChunk, response, serverVars,
                 delivered, nPicks>>

\* fetch resolves with the response head; hasBody tells whether
\* response.body is there.  Where the read loop is reached, lastChunkTime is
\* Date.now()
fetchResolve(hasBody) ==
  /\ pc = "fetch"
  /\ response # NoResponse
  /\ request' = NoRequest
  /\ response' = NoResponse
  /\ IF response.status # 200
     THEN /\ hasBody
          /\ UNCHANGED nFaults
          /\ failBeforeStream(<<IF imageToUse # None THEN "Failed to analyze image: "
                                                  ELSE "Failed to process message: ",
                                  ToString(response.status)>>)
     ELSE IF ~hasBody
     THEN /\ nFaults < MaxFaults
          /\ nFaults' = nFaults + 1
          /\ error' = <<"No response stream available">>
          /\ messages' = replaceContent(removeMessage(messages, <<messageId, "-loading">>),
                                        <<messageId, "-loading">>,
                                        ErrorContent(<<"No response stream available">>))
          /\ IF imageToUse # None
             THEN /\ colorPalette' = IF submitImage # None THEN <<>> ELSE colorPalette
                  /\ UNCHANGED isLoading
             ELSE /\ isLoading' = FALSE
                  /\ UNCHANGED colorPalette
          /\ pc' = "done"
     ELSE /\ messages' = removeMessage(messages, <<messageId, "-loading">>)
          /\ pc' = "read"
          /\ UNCHANGED <<isLoading, colorPalette, error, nFaults>>
  /\ sinceLastChunk' = 0
  /\ UNCHANGED <<apiKey, isAnalyzing, uiVars, now, messageId, submitImage,
                 imageToUse, accumulatedText, serverVars, delivered, nPicks>>

\* the byte position k of the response is the end of an event line
Aligned(k) == k = 0 \/ (k >= 2 /\ sseOut[k - 1] = "\n" /\ sseOut[k] = "\n")

\* Date.now() - lastChunkTime > CHUNK_TIMEOUT, the test an image request
\* makes after each read
TimedOut == imageToUse # None /\ sinceLastChunk > CHUNK_TIMEOUT

\* time passes while handleSubmit awaits reader.read(); Date.now() is read
\* by the loop of an image request alone, and beyond CHUNK_TIMEOUT more
\* time makes no difference to it
tick ==
  /\ pc = "read"
  /\ imageToUse # None
  /\ ~TimedOut
  /\ sinceLastChunk' = sinceLastChunk + TickMs
  /\ UNCHANGED <<apiKey, chatVars, uiVars, now, pc, messageId, submitImage,
                 imageToUse, accumulatedText, error, httpVars, serverVars,
                 delivered, nPicks, nFaults>>

\* reader.read() resolves with the next n bytes, for some n; the loop body
\* runs
readChunk ==
  /\ pc = "read"
  /\ ~TimedOut
  /\ sinceLastChunk' = 0
  /\ \E n \in 1..(Len(sseOut) - delivered) :
       /\ IF Aligned(delivered + n)
          THEN UNCHANGED nFaults
          ELSE n \in CutPoints /\ nFaults < MaxFaults /\ nFaults' = nFaults + 1
       /\ delivered' = delivered + n
       /\ \E st \in {onChunk([acc |-> accumulatedText, palette |-> colorPalette,
                              messages |-> messages],
                             SubSeq(sseOut, delivered + 1, delivered + n),
                             messageId, imageToUse, submitImage)} :
            /\ accumulatedText' = st.acc
            /\ colorPalette' = st.palette
            /\ messages' = st.messages
  /\ UNCHANGED <<apiKey, isLoading, isAnalyzing, uiVars, now, pc, messageId,
                 submitImage, imageToUse, error, httpVars, serverVars, nPicks>>

\* reader.read() resolves with done: the loop ends, the code after it and
\* the finally run
readDone ==
  /\ pc = "read"
  /\ ~TimedOut
  /\ stream = "closed"
  /\ delivered = Len(sseOut)
  /\ messages' = IF submitImage # None
                 THEN Append(messages, Msg(<<messageId, "-colors">>, "assistant",
                                           <<"Here are the main colors from your image:">>,
                                           NoPreview))
                 ELSE messages
  /\ isLoading' = FALSE
  /\ isAnalyzing' = IF imageToUse # None THEN FALSE ELSE isAnalyzing
  /\ pc' = "done"
  /\ UNCHANGED <<apiKey, colorPalette, uiVars, now, messageId, submitImage,
                 imageToUse, accumulatedText, sinceLastChunk, error, httpVars,
                 serverVars, delivered, nPicks, nFaults>>

\* a catch that writes the error over the streamed reply
failInStreamOverReply(message) ==
  /\ error' = message
  /\ messages' = replaceContent(messages, <<messageId, replySuffix(submitImage)>>,
                                ErrorContent(message))
  /\ colorPalette' = IF imageToUse # None /\ submitImage # None THEN <<>> ELSE colorPalette
  /\ isAnalyzing' = IF imageToUse # None THEN FALSE ELSE isAnalyzing
  /\ isLoading' = FALSE
  /\ pc' = "done"

\* what follows a throw inside the read loop: the inner catch and finally
\* of an image request, the catch and finally of a text-only request
failInStream(message) ==
  /\ error' = message
  /\ IF imageToUse # None
     THEN /\ messages' = Append(messages, Msg(<<messageId, "-error">>, "assistant",
                                              ErrorContent(message), NoPreview))
          /\ colorPalette' = IF submitImage # None THEN <<>> ELSE colorPalette
          /\ isAnalyzing' = FALSE
     ELSE /\ messages' = replaceContent(messages, <<messageId, "-loading">>,
                                        ErrorContent(message))
          /\ UNCHANGED <<colorPalette, isAnalyzing>>
  /\ isLoading' = FALSE
  /\ pc' = "done"

\* reader.read() rejects: the endpoint aborted the response
readError ==
  /\ pc = "read"
  /\ stream = "aborted"
  /\ failInStream(<<"network error">>)
  /\ UNCHANGED <<apiKey, uiVars, now, messageId, submitImage, imageToUse,
                 accumulatedText, sinceLastChunk, httpVars, serverVars, delivered,
                 nPicks, nFaults>>

\* reader.read() of an image request resolves, with bytes or with done,
\* more than CHUNK_TIMEOUT after the previous chunk: the test that follows
\* the read throws
readTimeout ==
  /\ pc = "read"
  /\ TimedOut
  /\ delivered < Len(sseOut) \/ stream = "closed"
  /\ failInStream(<<"Stream timeout: No data received for 10 seconds">>)
  /\ UNCHANGED <<apiKey, uiVars, now, messageId, submitImage, imageToUse,
                 accumulatedText, sinceLastChunk, httpVars, serverVars, delivered,
                 nPicks, nFaults>>

\* ------------------------------------------------------------------------
\* The system
\* ------------------------------------------------------------------------
Next ==
  \/ \E v \in Inputs : setInput(v)
  \/ \E file \in Files : handleImageSelect(file)
  \/ \E file \in Files : readerOnload(file)
  \/ removeImage
  \/ \E t \in DateNow(now) : t > now /\ handleSubmit(t)
  \/ POST
  \/ modelYield
  \/ modelEnd
  \/ modelFail
  \/ fetchReject
  \/ \E hasBody \in BOOLEAN : fetchResolve(hasBody)
  \/ readChunk
  \/ readDone
  \/ readError
  \/ tick
  \/ readTimeout

Spec == Init /\ [][Next]_vars

\* ------------------------------------------------------------------------
\* The endpoint with any client
\* ------------------------------------------------------------------------
\* a multipart request with these fields; None and Null stand for a field
\* that is not in the form
Multipart(image, mode, question, palette) ==
  [contentType |-> "multipart/form-data", image |-> image, mode |-> mode,
   question |-> question, currentPalette |-> palette, body |-> <<>>]

\* a request with this Content-Type header and this body
Plain(contentType, body) ==
  [contentType |-> contentType, image |-> None, mode |-> Null,
   question |-> Null, currentPalette |-> Null, body |-> body]

\* the requests a client of the endpoint can send: those of the Chatbot (a
\* new image, a follow-up with a palette, a text-only question), the same
\* without the image, with another mode or none, with a palette or a body
\* that is no JSON, and with another content type or none
Requests ==
  {Multipart("a.png", ModeFull, Null, Null),
   Multipart("a.png", ModeFollowup, <<"q">>,
             StringifyPalette(<<[name |-> <<"c">>, hex |-> <<"#">>, rgb |-> <<"(", ")">>]>>)),
   Multipart("a.png", ModeFollowup, <<"q">>, <<"[", "{">>),
   Multipart(None, ModeFull, Null, Null),
   Multipart(None, ModeFollowup, <<"q">>, Null),
   Multipart(None, ModeTextOnly, <<"q">>, Null),
   Multipart(None, Null, Null, Null),
   jsonBody(<<"q">>),
   Plain("application/json",
         <<"{">> \o JSONString(KeyQuestion) \o <<":">> \o JSONString(<<"q">>)
         \o <<",">> \o JSONString(KeyMode) \o <<":">> \o JSONString(ModeFull) \o <<"}">>),
   Plain("application/json", <<"{">>),
   Plain("text/plain", ModeTextOnly),
   Plain("", <<>>)}

\* a client sends a request, once the exchange before it is over; the
\* model is called MaxSubmits times at most
anyClient(req) ==
  /\ request = NoRequest \/ response # NoResponse
  /\ stream # "open"
  /\ Len(modelCalls) < MaxSubmits
  /\ request' = req
  /\ response' = NoResponse
  /\ bodyUsed' = FALSE
  /\ UNCHANGED <<apiKey, chatVars, uiVars, now, frameVars, stream, yielded, sseOut,
                 delivered, modelCalls, pending, nPicks, nFaults>>

EndpointNext ==
  \/ \E req \in Requests : anyClient(req)
  \/ POST
  \/ modelYield
  \/ modelEnd
  \/ modelFail

EndpointSpec == Init /\ [][EndpointNext]_vars

\* ------------------------------------------------------------------------
\* The Chatbot with any server
\* ------------------------------------------------------------------------
\* JSON.stringify({ error })
StringifyError(message) ==
  <<"{">> \o JSONString(KeyError) \o <<":">> \o JSONString(message) \o <<"}">>

\* an event line that carries an error instead of a text
ErrorLine(message) == DataPrefix \o StringifyError(message) \o <<"\n", "\n">>

\* the error a server reports in its stream
ServerError == <<"q", "u", "o", "t", "a">>

\* the bodies of the event streams a server can answer with: a text, an
\* error, a text; an error alone; a text alone
Bodies ==
  {EventLine(<<"a", " ">>) \o ErrorLine(ServerError) \o EventLine(<<"b">>),
   ErrorLine(ServerError),
   EventLine(<<"a">>)}

\* some server answers the request of the Chatbot with an event stream,
\* which it ends by closing or by aborting it
anyServer(body, end) ==
  /\ pc = "fetch"
  /\ request # NoRequest
  /\ response = NoResponse
  /\ response' = StreamResponse
  /\ stream' = end
  /\ sseOut' = body
  /\ delivered' = 0
  /\ UNCHANGED <<apiKey, chatVars, uiVars, now, frameVars, request, yielded,
                 modelCalls, bodyUsed, pending, nPicks, nFaults>>

ClientNext ==
  \/ \E v \in Inputs : setInput(v)
  \/ \E file \in Files : handleImageSelect(file)
  \/ \E file \in Files : readerOnload(file)
  \/ removeImage
  \/ \E t \in DateNow(now) : t > now /\ handleSubmit(t)
  \/ \E body \in Bodies, end \in {"closed", "aborted"} : anyServer(body, end)
  \/ fetchReject
  \/ \E hasBody \in BOOLEAN : fetchResolve(hasBody)
  \/ readChunk
  \/ readDone
  \/ readError
  \/ tick
  \/ readTimeout

ClientSpec == Init /\ [][ClientNext]_vars

\* ------------------------------------------------------------------------
\* The Chatbot and this endpoint with any reading of the clock: a submit
\* can read the millisecond the submit before it read
\* ------------------------------------------------------------------------
ClockNext ==
  \/ \E v \in Inputs : setInput(v)
  \/ \E file \in Files : handleImageSelect(file)
  \/ \E file \in Files : readerOnload(file)
  \/ removeImage
  \/ \E t \in DateNow(now) : handleSubmit(t)
  \/ POST
  \/ modelYield
  \/ modelEnd
  \/ modelFail
  \/ fetchReject
  \/ \E hasBody \in BOOLEAN : fetchResolve(hasBody)
  \/ readChunk
  \/ readDone
  \/ readError
  \/ tick
  \/ readTimeout

ClockSpec == Init /\ [][ClockNext]_vars

\* ------------------------------------------------------------------------
\* Properties
\* ------------------------------------------------------------------------
\* the bytes of one event line per token, in the order of the tokens
RECURSIVE Relayed(_)
Relayed(tokens) ==
  IF tokens = <<>> THEN <<>>
  ELSE Relayed(SubSeq(tokens, 1, Len(tokens) - 1))
       \o DataPrefix \o StringifyText(tokens[Len(tokens)]) \o <<"\n", "\n">>

\* the tokens in order, one after the other (an empty token adds nothing)
RECURSIVE Joined(_)
Joined(tokens) == IF tokens = <<>> THEN <<>> ELSE Head(tokens) \o Joined(Tail(tokens))

\* C1: whatever the endpoint has written to the response is one event line
\* data: {"text": t} followed by a blank line per token the model has
\* yielded so far, in the order of the yields: none dropped, duplicated or
\* reordered.  The data lines of the response parse back to the tokens, and
\* a response that is closed carries every token of the model's reply.
RelayInOrder ==
  /\ sseOut = Relayed(yielded)
  /\ Len(filterData(split(sseOut))) = Len(yielded)
  /\ \A k \in 1..Len(yielded) :
       ParseEvent(slice6(filterData(split(sseOut))[k]))
         = [ok |-> TRUE, text |-> yielded[k], error |-> <<>>]
  /\ stream = "closed" => pending = <<>>

\* C1 witness: a closed response that relayed three tokens, the first of
\* them empty, the second with a quote, a backslash and a line feed in it
RelayedThree ==
  /\ stream = "closed"
  /\ yielded = <<T0, T1, T2>>
  /\ Len(sseOut) > Len(T1) + Len(T2)

\* the response stream has ended for the client: the endpoint has closed
\* it and the client has read all of it, so the next read reports done
StreamEnded == pc = "read" /\ stream = "closed" /\ delivered = Len(sseOut)

\* C2 as stated: when the response stream ends, the text the client has
\* accumulated is the concatenation of the tokens the endpoint emitted
AccumulatedAll == StreamEnded => accumulatedText = Joined(yielded)

\* the positions of the replies of submit id
ReplyPositions(msgs, id) == {i \in DOMAIN msgs : msgs[i].id[1] = id /\ msgs[i].id[2] \in {"-analysis", "-response"}}

\* content is text cut before its first 'Main Colors:' (not cut if there is
\* none), then trimmed
CutAndTrimmed(text, content) ==
  \E n \in 0..Len(text) :
    /\ \A i \in 1..n : ~Lit(text, i, MainColors)
    /\ n = Len(text) \/ Lit(text, n + 1, MainColors)
    /\ content = trim(SubSeq(text, 1, n))

\* C3: while a response streams, a submit has at most one reply message;
\* it is there exactly when a non-empty token has been processed, its id
\* ends in -analysis for a new image and in -response otherwise, its
\* content is the accumulated text, cut before the first 'Main Colors:'
\* for image requests, and trimmed; a later token changes it in place.
OneReplyInPlace ==
  /\ [](\A id \in 1..now : Cardinality(ReplyPositions(messages, id)) <= 1)
  /\ [](pc = "read" =>
          /\ ReplyPositions(messages, messageId) # {} <=> accumulatedText # <<>>
          /\ \A i \in ReplyPositions(messages, messageId) :
               /\ messages[i].id[2] = IF submitImage # None THEN "-analysis" ELSE "-response"
               /\ messages[i].role = "assistant"
               /\ IF imageToUse # None
                  THEN CutAndTrimmed(accumulatedText, messages[i].content)
                  ELSE messages[i].content = trim(accumulatedText))
  /\ [][pc = "read" /\ pc' = "read" /\ ReplyPositions(messages, messageId) # {}
          => /\ Len(messages') = Len(messages)
             /\ ReplyPositions(messages', messageId) = ReplyPositions(messages, messageId)
             /\ \A i \in DOMAIN messages : messages'[i].id = messages[i].id]_vars

\* C3 witness: the reply of a new image shows the description alone while
\* the accumulated text already runs into the palette entries
ReplyCut ==
  /\ pc = "read"
  /\ submitImage # None
  /\ accumulatedText = T1 \o T2
  /\ \E i \in DOMAIN messages :
       /\ messages[i].id = <<messageId, "-analysis">>
       /\ messages[i].content = <<"\"", "S", "\\">>

\* the entries of the reply T1 T2 that are complete: the first and the
\* third
EntryRed == [name |-> <<"R", "e", "d">>,
             hex |-> <<"#", "F", "F", "0", "0", "0", "0">>,
             rgb |-> <<"(", "2", "5", "5", ",", " ", "0", ",", " ", "0", ")">>]
EntryC == [name |-> <<"c">>,
           hex |-> <<"#", "0", "a", "0", "B", "0", "c">>,
           rgb |-> <<"(", "9", "9", "9", ",", " ", "0", ",", " ", "0", ")">>]

\* C4: during an image request, new upload or follow-up, a chunk that
\* brings text leaves the palette as the list of all complete entries of
\* the accumulated text, in text order, if there is at least one, and as it
\* was if there is none; the entries of the reply T1 T2 come out with the
\* name trimmed, the hex as matched and the rgb as (r, g, b).
PaletteFollowsText ==
  [][pc = "read" /\ imageToUse # None /\ accumulatedText' # accumulatedText
       => /\ colorPalette' = IF parseColorInfo(accumulatedText') # <<>>
                             THEN parseColorInfo(accumulatedText')
                             ELSE colorPalette
          /\ accumulatedText' = T1 => colorPalette' = colorPalette
          /\ accumulatedText' = T1 \o T2 => colorPalette' = <<EntryRed, EntryC>>]_vars

\* C4 witness: a follow-up request whose reply has brought the two entries
PaletteOfFollowup ==
  /\ pc = "read"
  /\ imageToUse # None
  /\ submitImage = None
  /\ accumulatedText = T1 \o T2
  /\ colorPalette = <<EntryRed, EntryC>>

\* a new-image analysis has completed without error: the handler has run
\* past the read loop and added the message that introduces the palette
CompletedFull ==
  /\ pc = "done"
  /\ \E i \in DOMAIN messages : messages[i].id = <<messageId, "-colors">>

FollowupSubmit ==
  /\ now' = now + 1
  /\ selectedImage = None
  /\ trim(input) # <<>>
  /\ lastUploadedImage.file # None

\* the step is the endpoint taking a follow-up request
FollowupPOST ==
  /\ response = NoResponse
  /\ response' # NoResponse
  /\ request.contentType = "multipart/form-data"
  /\ request.mode = <<"f", "o", "l", "l", "o", "w", "u", "p">>

\* the text t occurs in the prompt
Contains(prompt, t) == indexOf(prompt, t) # 0

\* C6: a submit of a non-empty question with no newly selected image while
\* a last-uploaded image is held sends a multipart request with that image
\* file, mode followup, the trimmed question, and currentPalette (the JSON
\* of the palette) exactly when the palette is non-empty; the endpoint,
\* where its API key is set, answers it with a stream and calls the model
\* with that image and a prompt that contains the question and the name,
\* hex and rgb of every color of that palette.
FollowupRequest ==
  [][/\ FollowupSubmit =>
          /\ request'.contentType = "multipart/form-data"
          /\ request'.image = lastUploadedImage.file
          /\ request'.mode = <<"f", "o", "l", "l", "o", "w", "u", "p">>
          /\ request'.question = trim(input)
          /\ request'.currentPalette # Null <=> colorPalette # <<>>
          /\ colorPalette # <<>> =>
               /\ ParsePalette(request'.currentPalette).ok
               /\ ParsePalette(request'.currentPalette).val = colorPalette
     /\ FollowupPOST /\ apiKey =>
          /\ response'.status = 200
          /\ Len(modelCalls') = Len(modelCalls) + 1
          /\ modelCalls'[Len(modelCalls')].input.image = request.image
          /\ Contains(modelCalls'[Len(modelCalls')].input.prompt, request.question)
          /\ \A k \in DOMAIN colorPalette :
               /\ Contains(modelCalls'[Len(modelCalls')].input.prompt, colorPalette[k].name)
               /\ Contains(modelCalls'[Len(modelCalls')].input.prompt, colorPalette[k].hex)
               /\ Contains(modelCalls'[Len(modelCalls')].input.prompt, colorPalette[k].rgb)]_vars

\* C6 witness: the endpoint has answered a follow-up request that carries
\* the question q and a palette of two colors
FollowupAnswered ==
  /\ response.status = 200
  /\ request.mode = <<"f", "o", "l", "l", "o", "w", "u", "p">>
  /\ request.question = <<"q">>
  /\ request.image = "a.png"
  /\ request.currentPalette # Null
  /\ colorPalette = <<EntryRed, EntryC>>

HexDigits == {"0", "1", "2", "3", "4", "5", "6", "7", "8", "9",
              "a", "b", "c", "d", "e", "f", "A", "B", "C", "D", "E", "F"}

\* C7: every entry of the palette has a hex field that is '#' followed by
\* exactly six hexadecimal digits.
ValidHex ==
  \A k \in DOMAIN colorPalette :
    /\ Len(colorPalette[k].hex) = 7
    /\ colorPalette[k].hex[1] = "#"
    /\ \A n \in 2..7 : colorPalette[k].hex[n] \in HexDigits

\* C7 witness: the palette holds a hex code with digits and letters of
\* both cases, from a reply that also had an entry with a letter G in its
\* hex code
MixedCaseHex ==
  /\ accumulatedText = T1 \o T2
  /\ \E k \in DOMAIN colorPalette : colorPalette[k].hex = <<"#", "0", "a", "0", "B", "0", "c">>

DecimalDigits == <<"0", "1", "2", "3", "4", "5", "6", "7", "8", "9">>

\* the number a string of decimal digits stands for
RECURSIVE Value(_)
Value(digits) ==
  IF digits = <<>> THEN 0
  ELSE 10 * Value(SubSeq(digits, 1, Len(digits) - 1))
       + (CHOOSE d \in 0..9 : DecimalDigits[d + 1] = digits[Len(digits)])

\* the three components of an rgb field  (r, g, b) , as sets: empty where
\* the field has not that form with non-empty strings of decimal digits
Components(rgb) ==
  {c \in {[r |-> SubSeq(rgb, 2, i - 1),
           g |-> SubSeq(rgb, i + 2, j - 1),
           b |-> SubSeq(rgb, j + 2, Len(rgb) - 1)] :
            i, j \in {p \in DOMAIN rgb : rgb[p] = ","}} :
     /\ rgb = <<"(">> \o c.r \o <<",", " ">> \o c.g \o <<",", " ">> \o c.b \o <<")">>
     /\ \A s \in {c.r, c.g, c.b} :
          s # <<>> /\ \A n \in DOMAIN s : \E d \in DOMAIN DecimalDigits : s[n] = DecimalDigits[d]}

\* C8 as stated: every entry of the palette has each of its three RGB
\* components in the range [0,255]
RgbInRange ==
  \A k \in DOMAIN colorPalette :
    /\ Components(colorPalette[k].rgb) # {}
    /\ \A c \in Components(colorPalette[k].rgb) :
         Value(c.r) <= 255 /\ Value(c.g) <= 255 /\ Value(c.b) <= 255

\* C8, amended: every entry of the palette has an rgb field of the form
\* (r, g, b) whose three components are non-empty strings of decimal
\* digits, so numbers from 0 on; nothing bounds them by 255.
RgbDecimal ==
  \A k \in DOMAIN colorPalette : Components(colorPalette[k].rgb) # {}

\* C8 witness: the palette holds an entry with the component 999, from a
\* reply that also had an entry with a letter in its rgb value
RgbOutOfRange ==
  /\ accumulatedText = T1 \o T2
  /\ \E k \in DOMAIN colorPalette :
       \E c \in Components(colorPalette[k].rgb) : Value(c.r) = 999

\* C9: the input of a model call is determined by the request it is made
\* for: two calls for equal requests have equal inputs, whatever calls
\* came before them; the prompt of a text-only call is the template
\* followed by the question of its request and nothing else, the prompt of
\* a new-image call is the template alone, and the image of a call is the
\* image of its request.
NoHistory ==
  /\ \A i, j \in DOMAIN modelCalls :
       modelCalls[i].req = modelCalls[j].req => modelCalls[i].input = modelCalls[j].input
  /\ \A i \in DOMAIN modelCalls :
       /\ modelCalls[i].input.image = modelCalls[i].req.image
       /\ modelCalls[i].req.contentType = "application/json" =>
            /\ ParseBody(modelCalls[i].req.body).ok
            /\ Len(modelCalls[i].input.prompt) = 1 + Len(ParseBody(modelCalls[i].req.body).question)
            /\ \A k \in 2..Len(modelCalls[i].input.prompt) :
                 modelCalls[i].input.prompt[k] = ParseBody(modelCalls[i].req.body).question[k - 1]
       /\ modelCalls[i].req.mode = <<"f", "u", "l", "l">> => Len(modelCalls[i].input.prompt) = 1

\* C9 witness: the model has been called twice for equal requests
SameRequestTwice ==
  /\ Len(modelCalls) = 2
  /\ modelCalls[1].req = modelCalls[2].req
  /\ modelCalls[1].input.prompt # <<>>

\* C10 as stated, for a handler that has run to its end: isLoading is
\* false again
LoadingReset == pc = "done" => ~isLoading

\* the positions of the messages that show an error of submit id: assistant
\* messages of that submit whose content starts with 'Error: '
ErrorPositions(msgs, id) ==
  {i \in DOMAIN msgs : /\ msgs[i].id[1] = id
                       /\ msgs[i].role = "assistant"
                       /\ msgs[i].content # <<>>
                       /\ msgs[i].content[1] = "Error: "}

\* C11 as stated: once a submit has failed, at whatever stage (the fetch
\* rejected, the status was not OK, the response had no body, reading the
\* stream threw), the messages list holds an assistant message of that
\* submit whose content starts with 'Error: '
ErrorShown ==
  pc = "done" /\ error # None => ErrorPositions(messages, messageId) # {}

\* C12 as stated: during an image request, once no data has come from the
\* response stream for more than 10 seconds, the client stops reading and
\* reports 'Stream timeout: No data received for 10 seconds', also when the
\* stream stalls and delivers nothing more: whenever that much time has
\* passed in the read loop, the step that reports the timeout can be taken
TimeoutFires ==
  pc = "read" /\ imageToUse # None /\ sinceLastChunk > CHUNK_TIMEOUT
    => ENABLED readTimeout

\* C13 as stated: a preview that is shown belongs to the image that is
\* selected: imagePreview is non-null only while selectedImage is non-null,
\* and it is the data of that file
PreviewOfSelection ==
  imagePreview # NoPreview =>
    selectedImage # None /\ imagePreview = Preview(selectedImage)

\* the step is a submit that carries a newly selected image
ImageSubmit == now' = now + 1 /\ selectedImage # None

\* C14 as stated: a submit that carries a newly selected image leaves that
\* file in lastUploadedImage, whether or not the FileReader has produced
\* the preview by then
UploadRemembered ==
  [][ImageSubmit => lastUploadedImage'.file = selectedImage]_vars

\* the step is the endpoint answering the request before it
Answer == request # NoRequest /\ response = NoResponse /\ response' # NoResponse

\* the body of a JSON request can be parsed
Readable(req) == req.contentType = "application/json" => ParseBody(req.body).ok

\* the mode a request carries: the form field, the member of the JSON
\* body, none for any other content type
ModeOf(req) ==
  IF req.contentType = "multipart/form-data" THEN req.mode
  ELSE IF req.contentType = "application/json" /\ ParseBody(req.body).ok
  THEN ParseBody(req.body).mode
  ELSE Null

\* the request carries no image file and is not a text-only request: its
\* mode is another one or none, or its content type is neither
\* multipart/form-data nor application/json
ImageMissing(req) ==
  /\ req.image = None
  /\ \/ ModeOf(req) # <<"t", "e", "x", "t", "-", "o", "n", "l", "y">>
     \/ req.contentType \notin {"multipart/form-data", "application/json"}

\* C15 as stated: every request without an image file that is not a
\* text-only request is answered with HTTP 400 and the JSON error
\* 'No image file provided', and the model is not invoked
NoImageIs400 ==
  [][Answer /\ ImageMissing(request) =>
       /\ response' = [status |-> 400, contentType |-> "application/json",
                       error |-> <<"No image file provided">>]
       /\ modelCalls' = modelCalls]_vars

\* C15, amended: a request without an image file is accepted only when its
\* mode is text-only; any other such request never invokes the model, and
\* where GOOGLE_API_KEY is configured and the body of the request can be
\* parsed it is answered with HTTP 400 and the JSON error
\* 'No image file provided'.
NoImageRefused ==
  [][Answer /\ request.image = None =>
       /\ response'.status = 200 => ~ImageMissing(request)
       /\ ImageMissing(request) =>
            /\ modelCalls' = modelCalls
            /\ stream' = stream
            /\ response'.status \in {400, 500}
            /\ response'.contentType = "application/json"
            /\ apiKey /\ Readable(request) =>
                 /\ response'.status = 400
                 /\ response'.error = <<"No image file provided">>]_vars

\* C15 witness: a request of a content type that is neither of the two,
\* whose body says text-only, has been answered with 400
PlainTextRefused ==
  /\ request.contentType = "text/plain"
  /\ request.body = <<"t", "e", "x", "t", "-", "o", "n", "l", "y">>
  /\ response.status = 400
  /\ response.error = <<"No image file provided">>

\* C16: where GOOGLE_API_KEY is not configured, every request is answered
\* with HTTP 500 and a JSON body that carries an error text; the body of
\* the request has not been read by then, the model is not invoked and no
\* stream is opened.
NoKeyIs500 ==
  [][Answer /\ ~apiKey =>
       /\ response'.status = 500
       /\ response'.contentType = "application/json"
       /\ response'.error
            = <<"Server configuration error: GOOGLE_API_KEY is not configured">>
       /\ ~bodyUsed'
       /\ modelCalls' = modelCalls
       /\ stream' = stream
       /\ sseOut' = sseOut]_vars

\* C16 witness: without the key, a request whose body is no JSON has been
\* answered with the configuration error, not with a parse error
NoKeyNoParse ==
  /\ ~apiKey
  /\ request.contentType = "application/json"
  /\ request.body = <<"{">>
  /\ response.status = 500
  /\ ~bodyUsed

\* C17 as stated: a model call that fails before it has produced a token
\* is answered with HTTP 500 and a JSON body that carries the error
\* message, not with a 200 event stream
ModelFailureIs500 ==
  [][stream = "open" /\ stream' = "aborted" /\ yielded = <<>> =>
       /\ response'.status = 500
       /\ response'.contentType = "application/json"
       /\ response'.error # <<>>]_vars

\* the messages hold one with this id
HasMessage(msgs, id, suffix) == \E i \in DOMAIN msgs : msgs[i].id = <<id, suffix>>

\* C18: a response stream that ends while the model has chunks left to
\* yield (the model stream has failed) ends aborted, not closed, with
\* nothing more written to it; the Chatbot, reading the response of an image
\* request whose stream is aborted, ends the submit by appending one
\* assistant message <messageId>-error whose content starts with 'Error: ',
\* leaves every message it had, the partial reply among them, as it was,
\* and has no <messageId>-colors message, then or later.
AbortKeepsReply ==
  /\ [][/\ stream = "open" /\ stream' # "open" /\ pending # <<>> =>
             stream' = "aborted" /\ sseOut' = sseOut
        /\ pc = "read" /\ pc' = "done" /\ imageToUse # None /\ stream = "aborted" =>
             /\ Len(messages') = Len(messages) + 1
             /\ \A i \in DOMAIN messages : messages'[i] = messages[i]
             /\ messages'[Len(messages')].id = <<messageId, "-error">>
             /\ messages'[Len(messages')].role = "assistant"
             /\ messages'[Len(messages')].content[1] = "Error: "
             /\ ~HasMessage(messages', messageId, "-colors")]_vars
  /\ [](HasMessage(messages, messageId, "-error")
          => ~HasMessage(messages, messageId, "-colors"))

\* C18 witness: the model failed after it had yielded the empty chunk and
\* the description; the submit of the new image has ended with the
\* description still shown and the error after it
AbortedAfterTokens ==
  /\ pc = "done"
  /\ submitImage # None
  /\ stream = "aborted"
  /\ yielded = <<T0, T1>>
  /\ accumulatedText = T1
  /\ Len(messages) = 3
  /\ messages[2].id = <<messageId, "-analysis">>
  /\ messages[2].content = <<"\"", "S", "\\">>
  /\ messages[3].id = <<messageId, "-error">>
  /\ messages[3].content = <<"Error: ", "network error">>

\* the step is a read that brings a whole event line with an error field
ErrorLineArrives ==
  /\ pc = "read"
  /\ delivered' > delivered
  /\ \E k \in (delivered + 1)..delivered' :
       /\ k = delivered + 1 \/ sseOut[k - 1] = "\n"
       /\ Lit(sseOut, k, <<"d", "a", "t", "a", ":", " ", "{", "\"", "e", "r", "r", "o", "r",
                           "\"", ":", "\"", "q", "u", "o", "t", "a", "\"", "}", "\n">>)
       /\ k + 23 <= delivered'

\* C19 as stated: when a line of the stream carries a JSON object with an
\* error field, the client stops processing the response and shows that
\* error as an assistant message 'Error: ...'
ErrorLineStops ==
  [][ErrorLineArrives =>
       /\ pc' = "done"
       /\ \E i \in ErrorPositions(messages', messageId) :
            messages'[i].content = <<"Error: ", "q", "u", "o", "t", "a">>]_vars

\* C20 as stated: once a submit has finished, with success or with an
\* error, no message of the list has an id that ends with -loading
NoLoadingLeft ==
  pc = "done" => \A i \in DOMAIN messages : messages[i].id[2] # "-loading"

\* C21 as stated: in every reachable state the ids of the messages of the
\* list are pairwise distinct
DistinctIds ==
  \A i, j \in DOMAIN messages : i # j => messages[i].id # messages[j].id

====
